---- MODULE Spec2Model ----
(***************************************************************************)
(* Ticket Hero: the Pomodoro session of index.js (startPomodoro and its    *)
(* closures keyPressHandler, the setInterval callback, completeWorkPeriod, *)
(* startWorkPeriod, completeTicket, cleanup) and the settlement it calls   *)
(* (updateXP, calculatePendingStats, saveData), and the menu operations   *)
(* on tickets (addNewTicket, editTicket, selectTicketForPomodoro,          *)
(* updateJiraTicketStatus).                                                *)
(*                                                                         *)
(* Units.  Wall-clock readings (Date.now(), startTime) are milliseconds.   *)
(* totalSeconds, lastElapsedTime and timeRemaining are seconds, as in the  *)
(* source.  ticket.timeSpent is a JavaScript number of minutes; the model  *)
(* holds it in seconds, which is exact because every value the program    *)
(* stores is a multiple of WORK_DURATION (a quarter of a minute here) or   *)
(* of a tenth of a minute.                                                 *)
(* The numbers updateXP computes with are IEEE-754 doubles and are         *)
(* modelled bit for bit (section "Doubles").                               *)
(***************************************************************************)
EXTENDS Integers, Sequences, FiniteSets, TLC

(***************************************************************************)
(* Doubles.  A non-negative double is [m |-> bits, e |-> k]: the bits of   *)
(* its significand, most significant first, with a leading 1 and at most   *)
(* Precision of them, and the exponent of the last bit; its value is       *)
(* Nat(m) * 2^e.  Zero is the empty significand.  Every operation computes *)
(* the exact result and rounds it to nearest, ties to even, as the         *)
(* hardware does.                                                          *)
(***************************************************************************)
Precision == 53

Zeros(n) == [i \in 1..n |-> 0]

RECURSIVE BitsOf(_)
\* the binary digits of the natural n, most significant first; <<>> for 0
BitsOf(n) == IF n = 0 THEN <<>> ELSE Append(BitsOf(n \div 2), n % 2)

RECURSIVE NatOf(_)
\* the natural a (short) digit sequence stands for
NatOf(bits) ==
  IF bits = <<>> THEN 0
  ELSE 2 * NatOf(SubSeq(bits, 1, Len(bits) - 1)) + bits[Len(bits)]

\* the digit sequence without its leading zeros
Strip(bits) ==
  LET nz == {i \in 1..Len(bits) : bits[i] = 1}
  IN  IF nz = {} THEN <<>>
      ELSE LET f == CHOOSE i \in nz : \A j \in nz : i <= j
           IN  SubSeq(bits, f, Len(bits))

\* bits + 1
IncBits(bits) ==
  LET zs == {i \in 1..Len(bits) : bits[i] = 0}
  IN  IF zs = {} THEN <<1>> \o Zeros(Len(bits))
      ELSE LET k == CHOOSE i \in zs : \A j \in zs : j <= i
           IN  [i \in 1..Len(bits) |->
                  IF i < k THEN bits[i] ELSE IF i = k THEN 1 ELSE 0]

\* round the exact value Nat(bits) * 2^e (plus a non-zero tail below the
\* last bit when sticky) to a double: nearest, ties to even
RoundD(bits, sticky, e) ==
  LET b == Strip(bits)
      n == Len(b)
  IN  IF n <= Precision THEN [m |-> b, e |-> IF n = 0 THEN 0 ELSE e]
      ELSE LET keep  == SubSeq(b, 1, Precision)
               guard == b[Precision + 1]
               rest  == sticky \/ \E i \in (Precision + 2)..n : b[i] = 1
               up    == guard = 1 /\ (rest \/ keep[Precision] = 1)
               r     == IF up THEN IncBits(keep) ELSE keep
           IN  IF Len(r) > Precision
               THEN [m |-> SubSeq(r, 1, Precision), e |-> e + (n - Precision) + 1]
               ELSE [m |-> r, e |-> e + (n - Precision)]

\* the double of a natural (exact for the naturals of the model)
IntD(n) == RoundD(BitsOf(n), FALSE, 0)

RECURSIVE MulBits(_, _, _, _, _)
\* digits lo..hi of Nat(bits) * n given the carry coming in from the right,
\* and the carry going out to the left.  The digit range is halved at each
\* call and the half the carry comes from is computed first (the test of
\* its carry, which is never negative, does that), so that the evaluation
\* stays shallow; DivBits and SubBits are written the same way.
MulBits(bits, n, lo, hi, carry) ==
  IF lo = hi
  THEN LET t == bits[lo] * n + carry
       IN  [d |-> <<t % 2>>, c |-> t \div 2]
  ELSE LET mid == (lo + hi) \div 2
           R   == MulBits(bits, n, mid + 1, hi, carry)
       IN  IF R.c < 0 THEN R
           ELSE LET L == MulBits(bits, n, lo, mid, R.c)
                IN  [d |-> L.d \o R.d, c |-> L.c]

\* x * n for a double x and a natural n (JavaScript x * n)
MulD(x, n) ==
  IF x.m = <<>> \/ n = 0 THEN [m |-> <<>>, e |-> 0]
  ELSE LET p == MulBits(x.m, n, 1, Len(x.m), 0)
       IN  RoundD(BitsOf(p.c) \o p.d, FALSE, x.e)

RECURSIVE DivBits(_, _, _, _, _)
\* long division of digits lo..hi of Nat(bits) by n given the remainder
\* coming in from the left: the quotient digits and the remainder going out
DivBits(bits, n, lo, hi, r) ==
  IF lo = hi
  THEN LET t == 2 * r + bits[lo]
       IN  IF t >= n THEN [q |-> <<1>>, r |-> t - n] ELSE [q |-> <<0>>, r |-> t]
  ELSE LET mid == (lo + hi) \div 2
           L   == DivBits(bits, n, lo, mid, r)
       IN  IF L.r < 0 THEN L
           ELSE LET R == DivBits(bits, n, mid + 1, hi, L.r)
                IN  [q |-> L.q \o R.q, r |-> R.r]

\* x / n for a double x and a natural n > 0 (JavaScript x / n)
DivD(x, n) ==
  IF x.m = <<>> THEN [m |-> <<>>, e |-> 0]
  ELSE LET z  == Precision + 2 + Len(BitsOf(n))
           b  == x.m \o Zeros(z)
           qr == DivBits(b, n, 1, Len(b), 0)
       IN  RoundD(qr.q, qr.r # 0, x.e - z)

RECURSIVE SubBits(_, _, _, _, _)
\* digits lo..hi of Nat(a) - Nat(b), for equally long a and b, given the
\* borrow coming in from the right, and the borrow going out
SubBits(a, b, lo, hi, borrow) ==
  IF lo = hi
  THEN LET t == a[lo] - b[lo] - borrow
       IN  IF t < 0 THEN [d |-> <<t + 2>>, c |-> 1] ELSE [d |-> <<t>>, c |-> 0]
  ELSE LET mid == (lo + hi) \div 2
           R   == SubBits(a, b, mid + 1, hi, borrow)
       IN  IF R.c < 0 THEN R
           ELSE LET L == SubBits(a, b, lo, mid, R.c)
                IN  [d |-> L.d \o R.d, c |-> L.c]

\* Math.floor(x) of a double x, as a natural
FloorD(x) ==
  IF x.e >= 0 THEN NatOf(x.m \o Zeros(x.e))
  ELSE IF Len(x.m) + x.e <= 0 THEN 0
  ELSE NatOf(SubSeq(x.m, 1, Len(x.m) + x.e))

\* x > n for a double x and a natural n
GtD(x, n) ==
  \/ FloorD(x) > n
  \/ /\ FloorD(x) = n
     /\ x.e < 0
     /\ \E i \in (Len(x.m) + x.e + 1)..Len(x.m) : i >= 1 /\ x.m[i] = 1

\* x - n for a double x >= n and a natural n (JavaScript x - n): the exact
\* difference is a multiple of the last place of x and smaller than x, so
\* RoundD leaves it as it is
SubD(x, n) ==
  IF x.e >= 0 THEN IntD(FloorD(x) - n)
  ELSE LET nb == BitsOf(n) \o Zeros(0 - x.e)
           w  == IF Len(nb) > Len(x.m) THEN Len(nb) ELSE Len(x.m)
           a  == Zeros(w - Len(x.m)) \o x.m
           b  == Zeros(w - Len(nb)) \o nb
       IN  RoundD(SubBits(a, b, 1, w, 0).d, FALSE, x.e)

RECURSIVE AddBits(_, _, _, _, _)
\* digits lo..hi of Nat(a) + Nat(b), for equally long a and b, given the
\* carry coming in from the right, and the carry going out
AddBits(a, b, lo, hi, carry) ==
  IF lo = hi
  THEN LET t == a[lo] + b[lo] + carry
       IN  [d |-> <<t % 2>>, c |-> t \div 2]
  ELSE LET mid == (lo + hi) \div 2
           R   == AddBits(a, b, mid + 1, hi, carry)
       IN  IF R.c < 0 THEN R
           ELSE LET L == AddBits(a, b, lo, mid, R.c)
                IN  [d |-> L.d \o R.d, c |-> L.c]

\* x + n for a double x and a natural n (JavaScript x + n)
AddD(x, n) ==
  IF x.m = <<>> THEN IntD(n)
  ELSE IF x.e >= 0 THEN IntD(FloorD(x) + n)
  ELSE LET nb == BitsOf(n) \o Zeros(0 - x.e)
           w  == IF Len(nb) > Len(x.m) THEN Len(nb) ELSE Len(x.m)
           a  == Zeros(w - Len(x.m)) \o x.m
           b  == Zeros(w - Len(nb)) \o nb
           r  == AddBits(a, b, 1, w, 0)
       IN  RoundD(<<r.c>> \o r.d, FALSE, x.e)

\* Math.ceil(x) of a double x, as a natural
CeilD(x) == IF GtD(x, FloorD(x)) THEN FloorD(x) + 1 ELSE FloorD(x)

\* Math.floor of the double of magnitude x, negative when neg
FloorS(neg, x) == IF neg THEN 0 - CeilD(x) ELSE FloorD(x)

\* the Number NaN, held as an integer no computation of the model reaches
NaN == 0 - 1000000

\* a + b of two Numbers that are integers or NaN
AddN(a, b) == IF a = NaN \/ b = NaN THEN NaN ELSE a + b

Abs(n) == IF n < 0 THEN 0 - n ELSE n

(***************************************************************************)
(* Delays and bounds of the model                                          *)
(***************************************************************************)
\* the delays of the redraws scheduled with setTimeout, ms
PeriodRedrawDelay == 2000
KeyRedrawDelay == 1000

MaxNow == 3000         \* last clock reading, ms
MaxPomodoros == 2      \* Work periods the session may finish
MaxTimeouts == 2       \* timeouts pending at a time
MaxClockBack == 1      \* times the wall clock is set back
BackSteps == {500, 1500}   \* ms the wall clock is set back by
RunSeconds == 13       \* seconds the Work period of InitRun has run for
MaxTickets == 2        \* tickets in userData.tickets
MaxSessions == 2       \* sessions started from the menu
MaxEdits == 1          \* uses of Edit Ticket
MaxConfigured == 1     \* keys of config.json edited by hand
MaxFetched == 3        \* tickets in the list fetched from Jira
MaxStored == 4         \* tickets in userData.tickets after an import
AnswerDelay == 1       \* least time an answer or a reply of Jira takes, ms
StartReading == 100000 \* Date.now() of the initial state, ms since the epoch
TickSteps == {500, 1000, 2500}   \* ms between two firings of the interval

VARIABLES
  now,              \* Date.now(), ms from the clock reading of the initial state
  phase,            \* "session"; "menu" when no session runs; "exited"
                    \* once the program has been left; "crashed" once the
                    \* process has died
  ticket,           \* index in userData.tickets of the session's ticket
  timer,            \* the setInterval of the session is registered
  timeouts,         \* the setTimeout callbacks still to run: [due, kind]
  totalSeconds, timeRemaining, isPaused, mode, pomodoroCount,
  startTime, lastElapsedTime,
  lastFullDraw,     \* the closure variables of startPomodoro
  frames,           \* what drawTimerDisplay drew during the last step
  userData,         \* [user, tickets, stats] in memory
  config,           \* the configuration in memory
  atLoad,           \* config.pomodoro as index.js:16-19 read it when the
                    \* module was loaded
  configFile,       \* the content of config.json
  disk,             \* the content of the data file
  writable,         \* fs.writeFileSync succeeds
  saveReturn,       \* what the last call of saveData gave its caller
  lastOp,           \* the handler that ran last
  ghost             \* history kept for the properties; the actions read it
                    \* only in the guards that bound the model

vars == <<now, phase, ticket, timer, timeouts, totalSeconds, timeRemaining, isPaused,
          mode, pomodoroCount, startTime, lastElapsedTime, lastFullDraw, frames,
          userData, config, atLoad, configFile, disk, writable, saveReturn,
          lastOp, ghost>>

sessionVars == <<totalSeconds, timeRemaining, isPaused, mode, pomodoroCount,
                 startTime, lastElapsedTime, lastFullDraw>>

\* what no handler of the session or of the ticket menu writes
envVars == <<atLoad, configFile, writable>>

(***************************************************************************)
(* The Pomodoro settings of the session.  index.js:16-19 read them once,   *)
(* when the module is loaded; the durations are held in seconds, as the    *)
(* code uses them (WORK_DURATION * 60).                                    *)
(***************************************************************************)
WORK_DURATION_SEC == atLoad.workDuration
SHORT_BREAK_DURATION_SEC == atLoad.shortBreakDuration
LONG_BREAK_DURATION_SEC == atLoad.longBreakDuration
POMODOROS_BEFORE_LONG_BREAK == atLoad.longBreakInterval

(***************************************************************************)
(* Texts.  A text is the sequence of its characters.                       *)
(***************************************************************************)
DigitChars == <<"0", "1", "2", "3", "4", "5", "6", "7", "8", "9">>

IsDigit(c) == \E i \in 1..10 : DigitChars[i] = c

DigitValue(c) == (CHOOSE i \in 1..10 : DigitChars[i] = c) - 1

RECURSIVE SkipSpaces(_)
SkipSpaces(text) ==
  IF text # <<>> /\ Head(text) = " " THEN SkipSpaces(Tail(text)) ELSE text

\* the number of digits the text starts with
LeadingDigits(text) ==
  LET others == {i \in 1..Len(text) : ~IsDigit(text[i])}
  IN  IF others = {} THEN Len(text)
      ELSE (CHOOSE i \in others : \A j \in others : i <= j) - 1

RECURSIVE DecimalValue(_)
DecimalValue(digits) ==
  IF digits = <<>> THEN 0
  ELSE 10 * DecimalValue(SubSeq(digits, 1, Len(digits) - 1))
         + DigitValue(digits[Len(digits)])

\* parseInt(text, 10): leading spaces are skipped, a sign is read, then the
\* digits up to the first other character; NaN when there is no digit
parseInt(text) ==
  LET t      == SkipSpaces(text)
      signed == t # <<>> /\ Head(t) \in {"+", "-"}
      body   == IF signed THEN Tail(t) ELSE t
      n      == LeadingDigits(body)
      value  == DecimalValue(SubSeq(body, 1, n))
  IN  IF n = 0 THEN NaN
      ELSE IF signed /\ Head(t) = "-" THEN 0 - value ELSE value

\* x || fallback for a Number x: NaN and 0 are falsy
OrElse(x, fallback) == IF x = NaN \/ x = 0 THEN fallback ELSE x

(***************************************************************************)
(* config-helper.js.  A value of a configuration file is a JSON number, a  *)
(* string, a boolean, null, an object (its keys and their values), or      *)
(* undefined for a key the file does not have; the files of the model hold *)
(* no arrays.  A configured Number is held in sixtieths, so that a number  *)
(* of minutes is a number of seconds; the files of the model hold whole XP *)
(* rates and a whole longBreakInterval, and texts of spaces, signs,        *)
(* decimal digits and the letter p.  A file whose sections pomodoro and xp *)
(* are objects is also written as the record of the keys of both          *)
(* (jsonOf gives its JSON value).                                          *)
(***************************************************************************)
Num(n)  == [type |-> "number", num |-> n]
Str(t)  == [type |-> "string", text |-> t]
Bool(b) == [type |-> "boolean", bool |-> b]
Null == [type |-> "null"]
Undefined == [type |-> "undefined"]
Obj(f)  == [type |-> "object", fields |-> f]

\* item[key], undefined for a key the value does not have
get(item, key) ==
  IF item.type = "object" /\ key \in DOMAIN item.fields THEN item.fields[key]
  ELSE Undefined

DurationKeys == {"workDuration", "shortBreakDuration", "longBreakDuration"}

RateKeys == {"longBreakInterval", "baseXpPerStoryPoint",
             "earlyCompletionBonusPercent", "xpLevelThresholdMultiplier"}

ConfigKeys == DurationKeys \cup RateKeys

RECURSIVE TrimEnd(_)
TrimEnd(text) ==
  IF text # <<>> /\ text[Len(text)] = " "
  THEN TrimEnd(SubSeq(text, 1, Len(text) - 1)) ELSE text

\* Number(text): white space around the numeral is dropped; the empty text
\* is 0; a text that is not a numeral from end to end is NaN
StringToNumber(text) ==
  LET t      == TrimEnd(SkipSpaces(text))
      signed == t # <<>> /\ Head(t) \in {"+", "-"}
      body   == IF signed THEN Tail(t) ELSE t
  IN  IF t = <<>> THEN 0
      ELSE IF body = <<>> \/ LeadingDigits(body) < Len(body) THEN NaN
      ELSE IF signed /\ Head(t) = "-" THEN 0 - 60 * DecimalValue(body)
      ELSE 60 * DecimalValue(body)

\* Number(value)
ToNumber(value) ==
  CASE value.type = "number"    -> value.num
    [] value.type = "string"    -> StringToNumber(value.text)
    [] value.type = "boolean"   -> IF value.bool THEN 60 ELSE 0
    [] value.type = "null"      -> 0
    [] value.type = "undefined" -> NaN
    [] value.type = "object"    -> NaN

\* validatePositiveNumber keeping a 0
validatePositiveNumber_ZeroAllowed(value, defaultValue) ==
  LET num == ToNumber(value)
  IN  IF num # NaN /\ num >= 0 THEN num ELSE defaultValue

validatePositiveNumber(value, defaultValue) ==
  LET num == ToNumber(value)
  IN  IF num # NaN /\ num > 0 THEN num ELSE defaultValue

DefaultXp ==
  [baseXpPerStoryPoint |-> 10, earlyCompletionBonusPercent |-> 20,
   xpLevelThresholdMultiplier |-> 100]

\* the defaults of validateConfig, in sixtieths
DefaultValue ==
  [workDuration                |-> 60 * 25,
   shortBreakDuration          |-> 60 * 5,
   longBreakDuration           |-> 60 * 15,
   longBreakInterval           |-> 60 * 4,
   baseXpPerStoryPoint         |-> 60 * DefaultXp.baseXpPerStoryPoint,
   earlyCompletionBonusPercent |-> 60 * DefaultXp.earlyCompletionBonusPercent,
   xpLevelThresholdMultiplier  |-> 60 * DefaultXp.xpLevelThresholdMultiplier]

\* the section of the configuration that holds the key k
sectionOf(k) ==
  IF k \in {"baseXpPerStoryPoint", "earlyCompletionBonusPercent",
            "xpLevelThresholdMultiplier"} THEN "xp" ELSE "pomodoro"

\* a value is truthy: !value is false
truthy(value) ==
  CASE value.type = "number"  -> value.num # 0
    [] value.type = "string"  -> value.text # <<>>
    [] value.type = "boolean" -> value.bool
    [] value.type = "object"  -> TRUE
    [] OTHER                  -> FALSE

\* validateConfig(config) for the merged configuration: what the program
\* then reads as config.pomodoro.<key> and config.xp.<key>, the durations in
\* seconds and the other settings as the whole numbers they are.  A section
\* that is missing or falsy is replaced by {}; the assignments to a section
\* that is a number, a text or true are dropped, and its keys read
\* undefined, held as the NaN every computation makes of it.
validateConfig(merged) ==
  [k \in ConfigKeys |->
     LET given   == get(merged, sectionOf(k))
         section == IF truthy(given) THEN given
                    ELSE Obj([key \in {} |-> Undefined])
         num     == validatePositiveNumber(get(section, k), DefaultValue[k])
     IN  IF section.type # "object" THEN NaN
         ELSE IF k \in DurationKeys THEN num ELSE num \div 60]

\* isObject(item)
isObject(item) == item.type = "object"

\* { ...item }: the keys and values of an object, the characters of a text
\* under their indices, nothing for the other values
spread(item) ==
  CASE item.type = "object" -> item.fields
    [] item.type = "string" ->
         [key \in {ToString(i - 1) : i \in 1..Len(item.text)} |->
            Str(<<item.text[CHOOSE i \in 1..Len(item.text) : ToString(i - 1) = key]>>)]
    [] OTHER -> [key \in {} |-> Undefined]

RECURSIVE deepMerge(_, _)
\* deepMerge(target, source)
deepMerge(target, source) ==
  IF isObject(target) /\ isObject(source)
  THEN Obj([key \in DOMAIN target.fields \cup DOMAIN source.fields |->
              IF key \notin DOMAIN source.fields THEN target.fields[key]
              ELSE IF isObject(source.fields[key]) /\ key \in DOMAIN target.fields
              THEN deepMerge(target.fields[key], source.fields[key])
              ELSE source.fields[key]])
  ELSE Obj(spread(target))

\* the JSON value of a file given as the record of its keys
jsonOf(file) ==
  Obj([section \in {"pomodoro", "xp"} |->
         Obj([k \in {key \in ConfigKeys : /\ sectionOf(key) = section
                                          /\ file[key].type # "undefined"} |->
                file[k]])])

\* loadConfig() for two files given as the records of their keys
loadConfig(defaultConfig, userConfig) ==
  validateConfig(deepMerge(jsonOf(defaultConfig), jsonOf(userConfig)))

\* config.default.json, with the values README.md lists
DefaultFile == [k \in ConfigKeys |-> Num(DefaultValue[k])]

\* no file, or a file without any of the keys
NoFile == [k \in ConfigKeys |-> Undefined]

\* JSON.stringify(config) as saveConfig writes it
fileOf(cfg) ==
  [k \in ConfigKeys |-> Num(IF k \in DurationKeys THEN cfg[k] ELSE 60 * cfg[k])]

\* index.js:16-19
constantsOf(cfg) ==
  [workDuration       |-> cfg.workDuration,
   shortBreakDuration |-> cfg.shortBreakDuration,
   longBreakDuration  |-> cfg.longBreakDuration,
   longBreakInterval  |-> cfg.longBreakInterval]

\* a config.json with workDuration 0.25, shortBreakDuration 0.05,
\* longBreakDuration 0.1 and longBreakInterval 2
ShortFile ==
  [NoFile EXCEPT !.workDuration = Num(15), !.shortBreakDuration = Num(3),
                 !.longBreakDuration = Num(6), !.longBreakInterval = Num(120)]

\* the state the load of the module leaves for the file userConfig
loaded(userConfig) ==
  /\ configFile = userConfig
  /\ config = loadConfig(DefaultFile, userConfig)
  /\ atLoad = constantsOf(config)
  /\ writable = TRUE
  /\ saveReturn = "undefined"

Max(a, b) == IF a >= b THEN a ELSE b
Min(a, b) == IF a <= b THEN a ELSE b

\* periodDuration of the interval callback and of drawTimerDisplay
periodDuration(m) ==
  IF m = "work" THEN WORK_DURATION_SEC
  ELSE IF m = "shortBreak" THEN SHORT_BREAK_DURATION_SEC
  ELSE LONG_BREAK_DURATION_SEC

\* Math.round(minutes * 10) for a time given in seconds: tenths of a minute,
\* halves rounded up.  (With WORK_DURATION a multiple of a quarter of a
\* minute the double computation ticket.timeSpent + totalSeconds / 60 gives
\* the same tenths as this exact one.)
RoundTenths(sec) == (sec + 3) \div 6

(***************************************************************************)
(* updateXP                                                                *)
(***************************************************************************)
\* xpEarned of updateXP(ticket, actualTime); actualTime is the double
\* tenths / 10 that completeTicket stored in ticket.timeSpent.  storyPoints
\* and allocatedTime are the integers, of either sign, or the NaN that
\* addNewTicket and editTicket may store.  An allocatedTime of NaN makes
\* overtime NaN and overtime > 0 false; one of 0 makes overtime / 0
\* Infinity and the penalty 100 percent.
xpEarned(storyPoints, allocatedTime, tenths, cfg) ==
  LET base       == storyPoints * cfg.baseXpPerStoryPoint
      actualTime == DivD(IntD(tenths), 10)
      isOver     == /\ allocatedTime # NaN
                    /\ IF allocatedTime >= 0 THEN GtD(actualTime, allocatedTime)
                                             ELSE TRUE
      overtime   == IF allocatedTime >= 0 THEN SubD(actualTime, allocatedTime)
                    ELSE AddD(actualTime, 0 - allocatedTime)
      penaltyPercentage ==
        IF allocatedTime = 0 THEN 100
        ELSE Min(100, FloorS(allocatedTime < 0,
                             MulD(DivD(overtime, Abs(allocatedTime)), 100)))
      product    == base * penaltyPercentage
      penalty    == FloorS(product < 0, DivD(IntD(Abs(product)), 100))
      earlyBonus ==
        FloorS(base < 0,
               MulD(DivD(IntD(cfg.earlyCompletionBonusPercent), 100), Abs(base)))
  IN  IF storyPoints = NaN THEN NaN
      ELSE IF isOver THEN Max(0, base - penalty)
      ELSE base + earlyBonus

\* the level after the threshold test of updateXP
levelAfter(xp, level, cfg) ==
  IF xp # NaN /\ xp >= level * cfg.xpLevelThresholdMultiplier
  THEN level + 1 ELSE level

\* userData.user after updateXP
updateXP(user, storyPoints, allocatedTime, tenths, cfg) ==
  LET xp == AddN(user.xp, xpEarned(storyPoints, allocatedTime, tenths, cfg))
  IN  [xp |-> xp, level |-> levelAfter(xp, user.level, cfg)]

\* the stats after calculatePendingStats
calculatePendingStats(u) ==
  LET pending == {i \in 1..Len(u.tickets) : ~u.tickets[i].completed}
      RECURSIVE Sum(_)
      Sum(S) == IF S = {} THEN 0
                ELSE LET i == CHOOSE j \in S : TRUE
                     IN  AddN(u.tickets[i].storyPoints, Sum(S \ {i}))
  IN  [u EXCEPT !.stats.totalTicketsPending = Cardinality(pending),
                !.stats.totalStoryPointsPending = Sum(pending)]

\* no xpEarned computed yet
NoSettlement == [applied |-> FALSE]

\* loadConfig not called yet
NoLoad == [applied |-> FALSE]

\* parseSelectionString not called yet
NoSelection == [applied |-> FALSE]

(***************************************************************************)
(* The session: startPomodoro and its closures                             *)
(***************************************************************************)
\* breakAfter deciding on the count before the increment
breakAfter_PreIncrement(count) ==
  IF (count - 1) % POMODOROS_BEFORE_LONG_BREAK = 0 THEN "longBreak" ELSE "shortBreak"

\* the break that follows the Work period which made the count `count`
breakAfter(count) ==
  IF count % POMODOROS_BEFORE_LONG_BREAK = 0 THEN "longBreak" ELSE "shortBreak"

\* saveData() for the userData u: an error of the write is caught and
\* logged, and the call returns as it does after a write
saveData(u) ==
  /\ disk' = IF writable THEN u ELSE disk
  /\ saveReturn' = "undefined"

\* the redraw completeWorkPeriod ("break") or startWorkPeriod ("work")
\* schedules at clock reading t (the action that calls them registers it in
\* timeouts)
periodRedraw(t) ==
  [due |-> t + PeriodRedrawDelay,
   kind |-> IF mode' = "work" THEN "work" ELSE "break"]

\* the redraw the default branch of keyPressHandler schedules
keyRedraw(t) == [due |-> t + KeyRedrawDelay, kind |-> "key"]

\* the timeouts not yet due at clock reading t; the others have run by then
stillPending(t) == {x \in timeouts : x.due > t}

\* some timeout due by t draws the timer display when it runs (the redraw of
\* the default branch draws only when the session is not paused)
drawsBy(t) ==
  \E x \in timeouts : x.due <= t /\ (x.kind # "key" \/ ~isPaused)

\* getTicketTimeInfo() is null, or was not passed
NoInfo == [shown |-> FALSE, isOvertime |-> FALSE, seconds |-> 0]

\* getTicketTimeInfo() for the ticket tk, in mode m with totalSeconds secs.
\* (tk.timeSpent + secs is the exact value of totalMinutesSpent * 60; the
\* doubles of the code give the same sign: where the exact difference is 0
\* secs is a multiple of a quarter of a minute and the doubles are exact.)
getTicketTimeInfo(tk, m, secs) ==
  IF m # "work" THEN NoInfo
  ELSE LET remainingSeconds ==
             IF tk.allocatedTime = NaN THEN NaN
             ELSE 60 * tk.allocatedTime - (tk.timeSpent + secs)
       IN  [shown      |-> TRUE,
            isOvertime |-> remainingSeconds # NaN /\ remainingSeconds < 0,
            seconds    |-> IF remainingSeconds = NaN THEN NaN
                           ELSE Abs(remainingSeconds)]

\* the frame drawTimerDisplay(remaining, m, paused, info) draws: the mode,
\* the time remaining, the duration its progress bar counts to, the pause
\* state and the ticket's time information; by names the caller
drawTimerDisplay(by, remaining, m, paused, info) ==
  [by            |-> by,
   mode          |-> m,
   timeRemaining |-> remaining,
   duration      |-> IF m = "work" THEN WORK_DURATION_SEC
                     ELSE IF m = "shortBreak" THEN SHORT_BREAK_DURATION_SEC
                     ELSE LONG_BREAK_DURATION_SEC,
   isPaused      |-> paused,
   info          |-> IF info.shown /\ m = "work" THEN info ELSE NoInfo]

\* the frame the timeout x draws when it runs
timeoutFrame(x) ==
  CASE x.kind = "key" ->
         drawTimerDisplay("delayed", timeRemaining, mode, isPaused,
                          getTicketTimeInfo(userData.tickets[ticket], mode, totalSeconds))
    [] x.kind = "break" ->
         drawTimerDisplay("delayed",
                          IF mode = "shortBreak" THEN SHORT_BREAK_DURATION_SEC
                                                 ELSE LONG_BREAK_DURATION_SEC,
                          mode, isPaused, NoInfo)
    [] x.kind = "work" ->
         drawTimerDisplay("delayed", WORK_DURATION_SEC, mode, isPaused,
                          getTicketTimeInfo(userData.tickets[ticket], mode, totalSeconds))

\* the frames the timeouts due by clock reading t draw
timeoutFrames(t) ==
  {timeoutFrame(x) :
     x \in {y \in timeouts : y.due <= t /\ (y.kind # "key" \/ ~isPaused)}}

\* the interval callback draws every poll that counts a second
pollDraws_EverySecond(t) == TRUE

\* the test "Redraw every 1 second" of the interval callback at reading t
pollDraws(t) == t - lastFullDraw >= 1000

\* the frame the interval callback draws at clock reading t, if it draws
\* one: the new time remaining, in the mode and for the ticket as they are
\* before the period can end
pollFrame(t) ==
  IF ~isPaused /\ (t - startTime) \div 1000 > lastElapsedTime /\ pollDraws(t)
  THEN {drawTimerDisplay("poll", timeRemaining', mode, isPaused,
                         getTicketTimeInfo(userData.tickets[ticket], mode,
                                           (t - startTime) \div 1000))}
  ELSE {}

\* completeWorkPeriod(), called at clock reading t
completeWorkPeriod(t) ==
  /\ pomodoroCount' = pomodoroCount + 1
  /\ userData' = [userData EXCEPT
                    !.tickets[ticket].timeSpent = @ + WORK_DURATION_SEC]
  /\ saveData(userData')
  /\ mode' = breakAfter(pomodoroCount')
  /\ totalSeconds' = 0
  /\ lastElapsedTime' = 0
  /\ startTime' = t

\* startWorkPeriod without the reset of the elapsed seconds
startWorkPeriod_KeepElapsed(t) ==
  /\ mode' = "work"
  /\ startTime' = t
  /\ UNCHANGED <<totalSeconds, lastElapsedTime, pomodoroCount, userData, disk,
                 saveReturn>>

\* startWorkPeriod(), called at clock reading t
startWorkPeriod(t) ==
  /\ mode' = "work"
  /\ totalSeconds' = 0
  /\ lastElapsedTime' = 0
  /\ startTime' = t
  /\ UNCHANGED <<pomodoroCount, userData, disk, saveReturn>>

\* the history of the current period starts again
newPeriod(workSecs) ==
  ghost' = [ghost EXCEPT !.unpausedMs = 0, !.workSeconds = workSecs]

\* timerCallback counting the polls instead of reading the clock
timerCallback_CountPolls(t) ==
  IF isPaused THEN UNCHANGED <<sessionVars, userData, disk, saveReturn>>
  ELSE /\ timeRemaining' =
            Max(0, periodDuration(mode) - ((totalSeconds + 1) % periodDuration(mode)))
       /\ lastElapsedTime' = totalSeconds + 1
       /\ totalSeconds' = totalSeconds + 1
       /\ lastFullDraw' = IF pollDraws(t) THEN t ELSE lastFullDraw
       /\ UNCHANGED <<isPaused, mode, pomodoroCount, startTime, userData, disk,
                      saveReturn>>

\* timerCallback without the test elapsedSeconds > lastElapsedTime
timerCallback_NoLaterTest(t) ==
  IF isPaused THEN UNCHANGED <<sessionVars, userData, disk, saveReturn>>
  ELSE LET elapsedSeconds == (t - startTime) \div 1000
       IN  /\ timeRemaining' =
                Max(0, periodDuration(mode) - (elapsedSeconds % periodDuration(mode)))
           /\ lastElapsedTime' = elapsedSeconds
           /\ totalSeconds' = elapsedSeconds
           /\ lastFullDraw' = IF pollDraws(t) THEN t ELSE lastFullDraw
           /\ UNCHANGED <<isPaused, mode, pomodoroCount, startTime, userData, disk,
                          saveReturn>>

\* timerCallback without the test of isPaused
timerCallback_NoPauseTest(t) ==
  LET elapsedSeconds == (t - startTime) \div 1000
  IN  IF elapsedSeconds > lastElapsedTime
      THEN /\ timeRemaining' =
                Max(0, periodDuration(mode) - (elapsedSeconds % periodDuration(mode)))
           /\ lastElapsedTime' = elapsedSeconds
           /\ totalSeconds' = elapsedSeconds
           /\ lastFullDraw' = IF pollDraws(t) THEN t ELSE lastFullDraw
           /\ UNCHANGED <<isPaused, mode, pomodoroCount, startTime, userData, disk,
                          saveReturn>>
      ELSE UNCHANGED <<sessionVars, userData, disk, saveReturn>>

\* the setInterval callback, run at clock reading t
timerCallback(t) ==
  IF isPaused THEN UNCHANGED <<sessionVars, userData, disk, saveReturn>>
  ELSE LET elapsedSeconds == (t - startTime) \div 1000
       IN  IF elapsedSeconds > lastElapsedTime
           THEN LET remaining ==
                      Max(0, periodDuration(mode) - (elapsedSeconds % periodDuration(mode)))
                IN  /\ timeRemaining' = remaining
                    /\ lastFullDraw' = IF pollDraws(t) THEN t ELSE lastFullDraw
                    /\ UNCHANGED isPaused
                    /\ IF remaining = 0
                       THEN IF mode = "work" THEN completeWorkPeriod(t)
                                             ELSE startWorkPeriod(t)
                       ELSE /\ lastElapsedTime' = elapsedSeconds
                            /\ totalSeconds' = elapsedSeconds
                            /\ UNCHANGED <<mode, pomodoroCount, startTime,
                                           userData, disk, saveReturn>>
           ELSE UNCHANGED <<sessionVars, userData, disk, saveReturn>>

\* d ms pass: the interval fires and the timeouts due by then run
Tick(d) ==
  /\ phase = "session"
  /\ timer
  /\ now + d <= MaxNow
  /\ now' = now + d
  /\ timerCallback(now')
  /\ timeouts' = stillPending(now')
                    \cup (IF mode' # mode THEN {periodRedraw(now')} ELSE {})
  /\ frames' = timeoutFrames(now') \cup pollFrame(now')
  /\ lastOp' = "tick"
  /\ ghost' = IF mode' # mode
              THEN [ghost EXCEPT !.unpausedMs = 0,
                                 !.workSeconds = @ + (IF mode = "work"
                                                      THEN WORK_DURATION_SEC
                                                      ELSE 0),
                                 !.pollDrawAt = IF pollFrame(now') # {}
                                                THEN now' ELSE @]
              ELSE [ghost EXCEPT !.unpausedMs = IF isPaused THEN @ ELSE @ + d,
                                 !.pollDrawAt = IF pollFrame(now') # {}
                                                THEN now' ELSE @]
  /\ UNCHANGED <<phase, ticket, timer, config, envVars>>

\* the wall clock is set back by d ms and the interval fires.  The timers of
\* the event loop run on a monotonic clock, so that the timeouts come due as
\* much later in wall-clock readings
ClockBack(d) ==
  /\ phase = "session"
  /\ timer
  /\ ghost.clockBacks < MaxClockBack
  /\ now - d >= 0
  /\ now' = now - d
  /\ timerCallback(now')
  /\ timeouts' = {[x EXCEPT !.due = @ - d] : x \in timeouts}
                    \cup (IF mode' # mode THEN {periodRedraw(now')} ELSE {})
  /\ frames' = pollFrame(now')
  /\ lastOp' = "clockBack"
  /\ ghost' = [ghost EXCEPT !.clockBacks = @ + 1,
                            !.pollDrawAt = IF pollFrame(now') # {} THEN now' ELSE @]
  /\ UNCHANGED <<phase, ticket, timer, config, envVars>>

\* KeyP resuming without the adjustment of startTime
KeyP_NoRebase ==
  /\ phase = "session"
  /\ isPaused' = ~isPaused
  /\ frames' = {drawTimerDisplay("pause", timeRemaining, mode, isPaused',
                                 getTicketTimeInfo(userData.tickets[ticket], mode,
                                                   totalSeconds))}
  /\ lastOp' = IF isPaused THEN "resume" ELSE "pause"
  /\ UNCHANGED <<now, phase, ticket, timer, timeouts, totalSeconds,
                 timeRemaining, mode, pomodoroCount, startTime, lastElapsedTime,
                 lastFullDraw, userData, config, disk, saveReturn, ghost, envVars>>

\* keyPressHandler, case 'p'
KeyP ==
  /\ phase = "session"
  /\ isPaused' = ~isPaused
  /\ startTime' = IF isPaused THEN now - lastElapsedTime * 1000 ELSE startTime
  /\ frames' = {drawTimerDisplay("pause", timeRemaining, mode, isPaused',
                                 getTicketTimeInfo(userData.tickets[ticket], mode,
                                                   totalSeconds))}
  /\ lastOp' = IF isPaused THEN "resume" ELSE "pause"
  /\ UNCHANGED <<now, phase, ticket, timer, timeouts, totalSeconds,
                 timeRemaining, mode, pomodoroCount, lastElapsedTime,
                 lastFullDraw, userData, config, disk, saveReturn, ghost, envVars>>

\* keyPressHandler, case 's'
KeyS ==
  /\ phase = "session"
  /\ IF mode = "work"
     THEN /\ pomodoroCount < MaxPomodoros
          /\ completeWorkPeriod(now)
          /\ lastOp' = "skipWork"
          /\ newPeriod(ghost.workSeconds + totalSeconds)
     ELSE /\ startWorkPeriod(now)
          /\ lastOp' = "skipBreak"
          /\ newPeriod(ghost.workSeconds)
  /\ Cardinality(timeouts) < MaxTimeouts
  /\ timeouts' = timeouts \cup {periodRedraw(now)}
  /\ frames' = {}
  /\ UNCHANGED <<now, phase, ticket, timer, timeRemaining, isPaused,
                 lastFullDraw, config, envVars>>

\* cleanup() without the removal of the key listener
cleanup_KeepListener ==
  /\ timer' = FALSE
  /\ phase' = phase
  /\ UNCHANGED timeouts

\* cleanup(): clearInterval and removeListener; the session's key handler
\* runs no more (phase), the timeouts stay
cleanup ==
  /\ timer' = FALSE
  /\ phase' = "menu"
  /\ UNCHANGED timeouts

\* the ticket tk with completedAt set to new Date().toISOString() at clock
\* reading t (the model holds the reading the text is written from)
completedAt(tk, t) ==
  [f \in DOMAIN tk \cup {"completedAt"} |->
     IF f = "completedAt" THEN t ELSE tk[f]]

\* completeTicket adding the time to the stats before it is rounded
completeTicket_UnroundedStats ==
  LET tk       == userData.tickets[ticket]
      tenths   == RoundTenths(tk.timeSpent + totalSeconds)
      final    == 6 * tenths
      overtime == IF tk.allocatedTime = NaN THEN NaN
                  ELSE Max(0, final - tk.allocatedTime * 60)
      u1 == [userData EXCEPT
               !.tickets[ticket] =
                  completedAt([tk EXCEPT !.timeSpent = final, !.completed = TRUE], now),
               !.stats.totalTicketsSolved = @ + 1,
               !.stats.totalTimeTaken = @ + tk.timeSpent + totalSeconds,
               !.stats.totalStoryPoints = AddN(@, tk.storyPoints),
               !.stats.totalOvertime = AddN(@, overtime)]
      u2 == [u1 EXCEPT
               !.user = updateXP(userData.user, tk.storyPoints,
                                 tk.allocatedTime, tenths, config)]
  IN  /\ cleanup
      /\ userData' = calculatePendingStats(u2)
      /\ saveData(userData')

\* completeTicket(), reached by keyPressHandler, case 'c'
completeTicket ==
  LET tk       == userData.tickets[ticket]
      tenths   == RoundTenths(tk.timeSpent + totalSeconds)
      final    == 6 * tenths
      overtime == IF tk.allocatedTime = NaN THEN NaN
                  ELSE Max(0, final - tk.allocatedTime * 60)
      u1 == [userData EXCEPT
               !.tickets[ticket] =
                  completedAt([tk EXCEPT !.timeSpent = final, !.completed = TRUE], now),
               !.stats.totalTicketsSolved = @ + 1,
               !.stats.totalTimeTaken = @ + final,
               !.stats.totalStoryPoints = AddN(@, tk.storyPoints),
               !.stats.totalOvertime = AddN(@, overtime)]
      u2 == [u1 EXCEPT
               !.user = updateXP(userData.user, tk.storyPoints,
                                 tk.allocatedTime, tenths, config)]
  IN  /\ cleanup
      /\ userData' = calculatePendingStats(u2)
      /\ saveData(userData')

KeyC ==
  /\ phase = "session"
  /\ completeTicket
  /\ lastOp' = "complete"
  /\ ghost' = [ghost EXCEPT !.workSeconds =
                                @ + (IF mode = "work" THEN totalSeconds ELSE 0),
                            !.settled = @ + 1]
  /\ frames' = {}
  /\ UNCHANGED <<now, ticket, sessionVars, config, envVars>>

\* keyPressHandler, case 'q'
KeyQ ==
  /\ phase = "session"
  /\ cleanup
  /\ lastOp' = "quit"
  /\ frames' = {}
  /\ UNCHANGED <<now, ticket, sessionVars, userData, config, disk, saveReturn,
                 ghost, envVars>>

\* keyPressHandler, default: any other key that has a name
KeyOther ==
  /\ phase = "session"
  /\ Cardinality(timeouts) < MaxTimeouts
  /\ timeouts' = timeouts \cup {keyRedraw(now)}
  /\ frames' = {drawTimerDisplay("key", timeRemaining, mode, isPaused,
                                 getTicketTimeInfo(userData.tickets[ticket], mode,
                                                   totalSeconds))}
  /\ lastOp' = "other"
  /\ UNCHANGED <<now, phase, ticket, timer, sessionVars, userData, config,
                 disk, saveReturn, ghost, envVars>>

\* keyPressHandler for a key event without a name (key.name is undefined
\* for a character that is neither a letter nor a digit nor a named key):
\* key.name.toLowerCase() throws a TypeError, which nothing catches, and the
\* process dies with its timers
KeyNoName ==
  /\ phase = "session"
  /\ phase' = "crashed"
  /\ timer' = FALSE
  /\ timeouts' = {}
  /\ lastOp' = "noName"
  /\ frames' = {}
  /\ UNCHANGED <<now, ticket, sessionVars, userData, config, disk, saveReturn,
                 ghost, envVars>>

\* d ms pass after the session has ended and the timeouts due by then run
Later(d) ==
  /\ phase = "menu"
  /\ timeouts # {}
  /\ now + d <= MaxNow
  /\ now' = now + d
  /\ timeouts' = stillPending(now')
  /\ frames' = timeoutFrames(now')
  /\ lastOp' = IF drawsBy(now') THEN "redraw" ELSE "later"
  /\ UNCHANGED <<phase, ticket, timer, sessionVars, userData, config, disk,
                 saveReturn, ghost, envVars>>

(***************************************************************************)
(* Init: the state startPomodoro(ticket) leaves (index.js:638-644, 705,    *)
(* 731) for the only ticket of the data file, a pending ticket added with  *)
(* Add New Ticket (3 story points, 1 minute allocated) and possibly worked *)
(* on before (Work periods of earlier sessions), with the default XP       *)
(* settings and a config.json that sets workDuration 0.25,                 *)
(* shortBreakDuration 0.05, longBreakDuration 0.1 and longBreakInterval 2. *)
(***************************************************************************)
NewTicket(sp, alloc, spent) ==
  [storyPoints |-> sp, allocatedTime |-> alloc, timeSpent |-> spent,
   completed |-> FALSE]

NoStats ==
  [totalTicketsSolved |-> 0, totalTimeTaken |-> 0, totalOvertime |-> 0,
   totalStoryPoints |-> 0, totalStoryPointsPending |-> 0,
   totalTicketsPending |-> 0]

\* startPomodoro(userData.tickets[i]) at clock reading 0
startPomodoro(i) ==
  /\ now = 0
  /\ phase = "session"
  /\ ticket = i
  /\ timer = TRUE
  /\ timeouts = {}
  /\ totalSeconds = 0
  /\ timeRemaining = WORK_DURATION_SEC
  /\ isPaused = FALSE
  /\ mode = "work"
  /\ pomodoroCount = 0
  /\ startTime = 0
  /\ lastElapsedTime = 0
  /\ lastFullDraw = 0 - StartReading
  /\ frames = {drawTimerDisplay("start", WORK_DURATION_SEC, "work", FALSE,
                                getTicketTimeInfo(userData.tickets[i], "work", 0))}
  /\ lastOp = "start"
  /\ ghost = [atStart     |-> [timeSpent |-> userData.tickets[i].timeSpent,
                               completed |-> userData.tickets[i].completed,
                               user      |-> userData.user],
              unpausedMs  |-> 0,
              workSeconds |-> 0,
              settled     |-> 0,
              clockBacks  |-> 0,
              sessions    |-> 1,
              edits       |-> 0,
              pollDrawAt  |-> 0 - 1,
              settlement  |-> NoSettlement,
              load        |-> NoLoad,
              selection   |-> NoSelection]

Init ==
  /\ loaded(ShortFile)
  /\ \E spent \in {0, 3 * WORK_DURATION_SEC} :
       userData = calculatePendingStats(
                    [user    |-> [xp |-> 90, level |-> 1],
                     tickets |-> <<NewTicket(3, 1, spent)>>,
                     stats   |-> NoStats])
  /\ disk = userData
  /\ startPomodoro(1)

Next ==
  \/ \E d \in TickSteps : Tick(d)
  \/ KeyP
  \/ KeyS
  \/ KeyC
  \/ KeyQ
  \/ KeyOther
  \/ KeyNoName
  \/ \E d \in TickSteps : Later(d)

Spec == Init /\ [][Next]_vars

(***************************************************************************)
(* The menu: Add New Ticket, Edit Ticket, Start Pomodoro and the Jira      *)
(* status update.  A text the user enters is the sequence of its           *)
(* characters.                                                             *)
(***************************************************************************)
\* the texts entered for story points and for allocated time
PointsTexts == {<<>>, <<" ", "-", "5", "p">>, <<"x">>}
TimeTexts   == {<<>>, <<"-", "3">>, <<"0">>}

\* a ticket imported from Jira
JiraTicket(sp, alloc) ==
  [storyPoints |-> sp, allocatedTime |-> alloc, timeSpent |-> 0,
   completed |-> FALSE, jiraId |-> "PROJ-1"]

\* the ticket tk as it is created at clock reading t: its id is
\* Date.now().toString(), and two ids are the same text exactly when the
\* readings are the same number, so the model holds the reading
created(tk, t) ==
  [f \in DOMAIN tk \cup {"id"} |-> IF f = "id" THEN t ELSE tk[f]]

\* userData.tickets.filter(f), as the indices of the tickets kept, in order
pendingTickets ==
  SelectSeq([i \in 1..Len(userData.tickets) |-> i],
            LAMBDA i : ~userData.tickets[i].completed)

jiraTickets ==
  SelectSeq([i \in 1..Len(userData.tickets) |-> i],
            LAMBDA i : "jiraId" \in DOMAIN userData.tickets[i])

menuFrame ==
  /\ frames' = {}
  /\ UNCHANGED <<now, phase, ticket, timer, timeouts, sessionVars, config, envVars>>

\* addNewTicket with the answers points and time; the answers are given
\* AnswerDelay after the menu was shown (the least time they take)
addNewTicket(points, time) ==
  /\ phase = "menu"
  /\ Len(userData.tickets) < MaxTickets
  /\ now' = now + AnswerDelay
  /\ LET storyPoints          == OrElse(parseInt(points), 1)
         allocatedTimeMinutes == OrElse(parseInt(time), 25)
     IN  userData' = calculatePendingStats(
           [userData EXCEPT !.tickets =
              Append(@, created(NewTicket(storyPoints, allocatedTimeMinutes, 0),
                                now'))])
  /\ saveData(userData')
  /\ lastOp' = "add"
  /\ frames' = {}
  /\ UNCHANGED <<phase, ticket, timer, timeouts, sessionVars, config, envVars,
                 ghost>>

\* editTicket choosing the i-th pending ticket, with the answers points and
\* time (an empty answer keeps the value)
editTicket(i, points, time) ==
  /\ phase = "menu"
  /\ ghost.edits < MaxEdits
  /\ i \in 1..Len(pendingTickets)
  /\ LET k == pendingTickets[i]
     IN  userData' = [userData EXCEPT
           !.tickets[k].storyPoints =
              IF points # <<>> THEN parseInt(points) ELSE @,
           !.tickets[k].allocatedTime =
              IF time # <<>> THEN parseInt(time) ELSE @]
  /\ saveData(userData')
  /\ lastOp' = "edit"
  /\ ghost' = [ghost EXCEPT !.edits = @ + 1]
  /\ menuFrame

\* startPomodoro(userData.tickets[k]) at the clock reading now
startSession(k) ==
  /\ phase' = "session"
  /\ ticket' = k
  /\ timer' = TRUE
  /\ totalSeconds' = 0
  /\ timeRemaining' = WORK_DURATION_SEC
  /\ isPaused' = FALSE
  /\ mode' = "work"
  /\ pomodoroCount' = 0
  /\ startTime' = now
  /\ lastElapsedTime' = 0
  /\ lastFullDraw' = 0 - StartReading
  /\ frames' = {drawTimerDisplay("start", WORK_DURATION_SEC, "work", FALSE,
                                 getTicketTimeInfo(userData.tickets[k], "work", 0))}
  /\ lastOp' = "start"
  /\ ghost' = [atStart     |-> [timeSpent |-> userData.tickets[k].timeSpent,
                                completed |-> userData.tickets[k].completed,
                                user      |-> userData.user],
               unpausedMs  |-> 0,
               workSeconds |-> 0,
               settled     |-> 0,
               clockBacks  |-> ghost.clockBacks,
               sessions    |-> ghost.sessions + 1,
               edits       |-> ghost.edits,
               pollDrawAt  |-> 0 - 1,
              settlement  |-> NoSettlement,
              load        |-> NoLoad,
              selection   |-> NoSelection]
  /\ UNCHANGED <<now, timeouts, userData, config, disk, saveReturn, envVars>>

\* selectTicketForPomodoro offering every ticket
selectTicketForPomodoro_AllTickets(i) ==
  /\ phase = "menu"
  /\ ghost.sessions < MaxSessions
  /\ i \in 1..Len(userData.tickets)
  /\ startSession(i)

\* selectTicketForPomodoro choosing the i-th pending ticket
selectTicketForPomodoro(i) ==
  /\ phase = "menu"
  /\ ghost.sessions < MaxSessions
  /\ i \in 1..Len(pendingTickets)
  /\ startSession(pendingTickets[i])

\* updateJiraTicketStatus choosing the i-th ticket linked to Jira and the
\* status targetStatus; success is the answer of the Jira server
updateJiraTicketStatus(i, targetStatus, success) ==
  /\ phase = "menu"
  /\ i \in 1..Len(jiraTickets)
  /\ LET k == jiraTickets[i]
     IN  IF success /\ targetStatus = "Done" /\ ~userData.tickets[k].completed
         THEN /\ userData' = [userData EXCEPT !.tickets[k] =
                                 completedAt([@ EXCEPT !.completed = TRUE], now)]
              /\ saveData(userData')
         ELSE UNCHANGED <<userData, disk, saveReturn>>
  /\ lastOp' = IF success /\ targetStatus = "Done" THEN "jiraDone" ELSE "jira"
  /\ menuFrame
  /\ UNCHANGED ghost

\* the main menu after initApp, with a data file that holds a profile and
\* one ticket imported from Jira
InitTickets ==
  /\ loaded(ShortFile)
  /\ userData = calculatePendingStats(
                  [user    |-> [xp |-> 0, level |-> 1],
                   tickets |-> <<created(JiraTicket(3, 25), 0 - StartReading)>>,
                   stats   |-> NoStats])
  /\ disk = userData
  /\ now = 0
  /\ phase = "menu"
  /\ ticket = 1
  /\ timer = FALSE
  /\ timeouts = {}
  /\ totalSeconds = 0
  /\ timeRemaining = WORK_DURATION_SEC
  /\ isPaused = FALSE
  /\ mode = "work"
  /\ pomodoroCount = 0
  /\ startTime = 0
  /\ lastElapsedTime = 0
  /\ lastFullDraw = 0 - StartReading
  /\ frames = {}
  /\ lastOp = "menu"
  /\ ghost = [atStart     |-> [timeSpent |-> 0, completed |-> FALSE,
                               user      |-> userData.user],
              unpausedMs  |-> 0,
              workSeconds |-> 0,
              settled     |-> 0,
              clockBacks  |-> 0,
              sessions    |-> 0,
              edits       |-> 0,
              pollDrawAt  |-> 0 - 1,
              settlement  |-> NoSettlement,
              load        |-> NoLoad,
              selection   |-> NoSelection]

NextTickets ==
  \/ \E points \in PointsTexts, time \in TimeTexts : addNewTicket(points, time)
  \/ \E i \in 1..MaxTickets, points \in PointsTexts, time \in TimeTexts :
       editTicket(i, points, time)
  \/ \E i \in 1..MaxTickets : selectTicketForPomodoro(i)
  \/ \E i \in 1..MaxTickets, targetStatus \in {"In Progress", "Done", "Blocked"},
        success \in BOOLEAN :
       updateJiraTicketStatus(i, targetStatus, success)
  \/ KeyS
  \/ KeyC
  \/ KeyQ

SpecTickets == InitTickets /\ [][NextTickets]_vars

(***************************************************************************)
(* Starting the program with a config.json edited by hand (README.md,      *)
(* "Configuration"): the module is loaded again, with the data file as the *)
(* last run left it.                                                       *)
(***************************************************************************)
\* the values a key of config.json is given: 0, -3, "5", " p", null, or the
\* key is removed
FileValues ==
  {Num(0), Num(0 - 180), Str(<<"5">>), Str(<<" ", "p">>), Null, Undefined}

\* Exit of the main menu; the process ends when its timeouts have run
exitApp ==
  /\ phase = "menu"
  /\ phase' = "exited"
  /\ timeouts' = {}
  /\ frames' = {}
  /\ lastOp' = "exit"
  /\ UNCHANGED <<now, ticket, timer, sessionVars, userData, config, disk,
                 saveReturn, ghost, envVars>>

RECURSIVE FilesWithin(_)
\* the files that differ from ShortFile in at most n keys
FilesWithin(n) ==
  IF n = 0 THEN {ShortFile}
  ELSE LET F == FilesWithin(n - 1)
       IN  F \cup {[f EXCEPT ![k] = v] : f \in F, k \in ConfigKeys, v \in FileValues}

\* the contents the user gives config.json by hand
UserFiles == FilesWithin(MaxConfigured)

\* the program is started with userConfig in config.json: index.js:13-19
\* and loadData
startApp(userConfig) ==
  /\ phase \in {"exited", "crashed"}
  /\ configFile' = userConfig
  /\ config' = loadConfig(DefaultFile, userConfig)
  /\ atLoad' = constantsOf(config')
  /\ userData' = disk
  /\ phase' = "menu"
  /\ timer' = FALSE
  /\ timeouts' = {}
  /\ frames' = {}
  /\ lastOp' = "load"
  /\ UNCHANGED <<now, ticket, sessionVars, disk, writable, saveReturn, ghost>>

NextConfig ==
  \/ exitApp
  \/ \E userConfig \in UserFiles \cup {configFile} : startApp(userConfig)
  \/ \E i \in 1..MaxTickets : selectTicketForPomodoro(i)
  \/ KeyQ

SpecConfig == InitTickets /\ [][NextConfig]_vars

(***************************************************************************)
(* A session RunSeconds into its first Work period, polled on time and     *)
(* never paused; the clock readings count from that moment.                *)
(***************************************************************************)
InitRun ==
  /\ loaded(ShortFile)
  /\ userData = calculatePendingStats(
                  [user    |-> [xp |-> 90, level |-> 1],
                   tickets |-> <<NewTicket(3, 1, 0)>>,
                   stats   |-> NoStats])
  /\ disk = userData
  /\ now = 0
  /\ phase = "session"
  /\ ticket = 1
  /\ timer = TRUE
  /\ timeouts = {}
  /\ totalSeconds = RunSeconds
  /\ timeRemaining = WORK_DURATION_SEC - RunSeconds
  /\ isPaused = FALSE
  /\ mode = "work"
  /\ pomodoroCount = 0
  /\ startTime = 0 - 1000 * RunSeconds
  /\ lastElapsedTime = RunSeconds
  /\ lastFullDraw = 0
  /\ frames = {drawTimerDisplay("poll", timeRemaining, mode, isPaused,
                                getTicketTimeInfo(userData.tickets[1], mode,
                                                  totalSeconds))}
  /\ lastOp = "tick"
  /\ ghost = [atStart     |-> [timeSpent |-> 0, completed |-> FALSE,
                               user      |-> userData.user],
              unpausedMs  |-> 1000 * RunSeconds,
              workSeconds |-> 0,
              settled     |-> 0,
              clockBacks  |-> 0,
              sessions    |-> 1,
              edits       |-> 0,
              pollDrawAt  |-> 0,
              settlement  |-> NoSettlement,
              load        |-> NoLoad,
              selection   |-> NoSelection]

SpecRun == InitRun /\ [][Next]_vars

(***************************************************************************)
(* The session with a wall clock that may be set back.                     *)
(***************************************************************************)
NextClock ==
  \/ \E d \in TickSteps : Tick(d)
  \/ \E d \in BackSteps : ClockBack(d)
  \/ KeyP
  \/ KeyS
  \/ KeyC
  \/ KeyQ

SpecClock == Init /\ [][NextClock]_vars

(***************************************************************************)
(* The Settings menu.                                                      *)
(***************************************************************************)
\* the texts entered for a setting
SettingTexts == {<<"1">>, <<"0">>, <<"y">>}

\* the key of config that the option settingIndex of the menu changes; the
\* options 5, 6 and 9 change keys the session and the settlement never read
\* (autoStartBreaks, autoStartPomodoros, jira.enabled), which the model
\* does not hold
settingKey(settingIndex) ==
  CASE settingIndex = 1 -> "workDuration"
    [] settingIndex = 2 -> "shortBreakDuration"
    [] settingIndex = 3 -> "longBreakDuration"
    [] settingIndex = 4 -> "longBreakInterval"
    [] settingIndex = 7 -> "baseXpPerStoryPoint"
    [] settingIndex = 8 -> "earlyCompletionBonusPercent"
    [] OTHER -> "none"

\* saveConfig(cfg)
saveConfig(cfg) ==
  configFile' = IF writable THEN fileOf(cfg) ELSE configFile

\* settings with the option settingIndex chosen and the text value entered
settings(settingIndex, value) ==
  /\ phase = "menu"
  /\ LET newValue == parseInt(value)
         key      == settingKey(settingIndex)
         accepted ==
           IF key = "none" THEN value \in {<<"y">>, <<"n">>, <<"Y">>, <<"N">>}
           ELSE /\ newValue # NaN
                /\ IF settingIndex = 8 THEN newValue >= 0 ELSE newValue > 0
     IN  IF accepted
         THEN /\ config' = IF key = "none" THEN config
                           ELSE [config EXCEPT ![key] =
                                   IF key \in DurationKeys THEN 60 * newValue
                                   ELSE newValue]
              /\ saveConfig(config')
         ELSE UNCHANGED <<config, configFile>>
  /\ frames' = {}
  /\ lastOp' = "settings"
  /\ UNCHANGED <<now, phase, ticket, timer, timeouts, sessionVars, userData,
                 atLoad, disk, writable, saveReturn, ghost>>

NextSettings ==
  \/ \E settingIndex \in 1..9, value \in SettingTexts :
       settings(settingIndex, value)
  \/ \E i \in 1..MaxTickets : selectTicketForPomodoro(i)
  \/ KeyS
  \/ KeyQ

SpecSettings == InitTickets /\ [][NextSettings]_vars

\* the Settings menu, Exit, and the next start with the config.json that
\* saveConfig left
NextRestart ==
  \/ \E settingIndex \in 1..9, value \in SettingTexts :
       settings(settingIndex, value)
  \/ exitApp
  \/ startApp(configFile)

SpecRestart == InitTickets /\ [][NextRestart]_vars

(***************************************************************************)
(* The session with a data file that may stop taking writes.               *)
(***************************************************************************)
\* fs.writeFileSync starts to fail (disk full, file read-only), or works
\* again
writeFault ==
  /\ writable' = ~writable
  /\ frames' = {}
  /\ lastOp' = "fault"
  /\ UNCHANGED <<now, phase, ticket, timer, timeouts, sessionVars, userData,
                 config, atLoad, configFile, disk, saveReturn, ghost>>

NextSave ==
  \/ \E d \in TickSteps : Tick(d)
  \/ writeFault
  \/ KeyS
  \/ KeyC

SpecSave == Init /\ [][NextSave]_vars

(***************************************************************************)
(* Settlement on its own: Complete is pressed right after startPomodoro,   *)
(* for tickets, XP settings and users drawn from the sets below.  The time *)
(* already on the ticket is a whole number of minutes (a multiple of       *)
(* WORK_DURATION), so that the settlement is computed for integer inputs.  *)
(***************************************************************************)
XpStoryPoints == {3, 5, 20}
XpAllocated   == {30, 50}
XpMinutes     == {25, 45, 79}
XpBonuses     == {20, 25, 58}
XpStartXp     == {0, 90}

InitXP ==
  /\ \E b \in XpBonuses :
       loaded([ShortFile EXCEPT !.earlyCompletionBonusPercent = Num(60 * b)])
  /\ \E sp \in XpStoryPoints, al \in XpAllocated, mi \in XpMinutes,
        xp \in XpStartXp :
       userData = calculatePendingStats(
                    [user    |-> [xp |-> xp, level |-> 1],
                     tickets |-> <<NewTicket(sp, al, 60 * mi)>>,
                     stats   |-> NoStats])
  /\ disk = userData
  /\ startPomodoro(1)

NextXP == KeyC

SpecXP == InitXP /\ [][NextXP]_vars

(***************************************************************************)
(* updateXP for rates of the configuration that are not whole numbers.     *)
(* config.json may hold any positive Number; the rate is given here as the *)
(* sixtieths the configuration file is held in, the computation is the one *)
(* of updateXP in doubles, and xpEarned is a double.  The ticket has       *)
(* positive story points and allocated time.                               *)
(***************************************************************************)
MaxSettled == 45

RateStoryPoints == {1, 3}
RateAllocated   == {1, 2}
RateBonus       == 20
Rates           == {150, 600}

ZeroD == [m |-> <<>>, e |-> 0]

\* the double of a Number of the configuration held in sixtieths
NumberD(sixtieths) == DivD(IntD(sixtieths), 60)

\* x * y for doubles x and y, the significand of y short enough to be a
\* natural of the model (the exact product is rounded once, by MulD)
TimesD(x, y) ==
  IF x.m = <<>> \/ y.m = <<>> THEN ZeroD
  ELSE LET last == CHOOSE i \in 1..Len(y.m) :
                     y.m[i] = 1 /\ \A j \in (i + 1)..Len(y.m) : y.m[j] = 0
           p    == MulD(x, NatOf(SubSeq(y.m, 1, last)))
       IN  [m |-> p.m, e |-> p.e + y.e + (Len(y.m) - last)]

\* x <= y for doubles x and y
LeqD(x, y) ==
  LET e    == Min(x.e, y.e)
      a0   == IF x.m = <<>> THEN <<>> ELSE x.m \o Zeros(x.e - e)
      b0   == IF y.m = <<>> THEN <<>> ELSE y.m \o Zeros(y.e - e)
      w    == Max(Len(a0), Len(b0))
      a    == Zeros(w - Len(a0)) \o a0
      b    == Zeros(w - Len(b0)) \o b0
      diff == {i \in 1..w : a[i] # b[i]}
  IN  \/ diff = {}
      \/ LET f == CHOOSE i \in diff : \A j \in diff : i <= j
         IN  a[f] < b[f]

\* base XP of updateXP: ticket.storyPoints * config.xp.baseXpPerStoryPoint
baseXpD(storyPoints, rate) == MulD(NumberD(rate), storyPoints)

\* earlyBonus of updateXP for the base XP base
earlyBonusD(base, bonus) == FloorD(TimesD(DivD(IntD(bonus), 100), base))

\* xpEarned of updateXP(ticket, actualTime), actualTime the double
\* tenths / 10, for the rate config.xp.baseXpPerStoryPoint in sixtieths and
\* the whole config.xp.earlyCompletionBonusPercent bonus
xpEarnedD(storyPoints, allocatedTime, tenths, rate, bonus) ==
  LET base       == baseXpD(storyPoints, rate)
      actualTime == DivD(IntD(tenths), 10)
      overtime   == SubD(actualTime, allocatedTime)
      penaltyPercentage ==
        Min(100, FloorD(MulD(DivD(overtime, allocatedTime), 100)))
      penalty    == FloorD(DivD(MulD(base, penaltyPercentage), 100))
  IN  IF GtD(actualTime, allocatedTime)
      THEN IF GtD(base, penalty) THEN SubD(base, penalty) ELSE ZeroD
      ELSE AddD(base, earlyBonusD(base, bonus))

\* updateXP computes xpEarned for a ticket settled at tenths / 10 minutes
\* (one settlement in a behaviour)
settleAt(storyPoints, allocatedTime, rate, tenths) ==
  /\ phase = "menu"
  /\ ~ghost.settlement.applied
  /\ ghost' = [ghost EXCEPT !.settlement =
                 [applied       |-> TRUE,
                  storyPoints   |-> storyPoints,
                  allocatedTime |-> allocatedTime,
                  rate          |-> rate,
                  tenths        |-> tenths,
                  xpEarned      |-> xpEarnedD(storyPoints, allocatedTime, tenths,
                                              rate, RateBonus)]]
  /\ lastOp' = "updateXP"
  /\ UNCHANGED <<now, phase, ticket, timer, timeouts, sessionVars, frames,
                 userData, config, disk, saveReturn, envVars>>

NextRates ==
  \E storyPoints \in RateStoryPoints, allocatedTime \in RateAllocated,
     rate \in Rates, tenths \in 0..MaxSettled :
    settleAt(storyPoints, allocatedTime, rate, tenths)

SpecRates == InitTickets /\ [][NextRates]_vars

(***************************************************************************)
(* loadConfig for files whose sections need not be objects.                *)
(***************************************************************************)
\* what a file holds under pomodoro or under xp: nothing, a number, a text,
\* null, an object, an object with an object under a key
SectionValues ==
  {Undefined, Num(300), Str(<<"5">>), Null,
   Obj([k \in {"workDuration"} |-> Num(900)]),
   Obj([k \in {"workDuration"} |-> Obj([j \in {"minutes"} |-> Num(900)])])}

\* the JSON object with the value pomodoro under "pomodoro" and the value
\* xp under "xp", a key left out where the value is undefined
fileWith(pomodoro, xp) ==
  Obj([section \in {t \in {"pomodoro", "xp"} :
                      (IF t = "xp" THEN xp ELSE pomodoro).type # "undefined"} |->
         IF section = "xp" THEN xp ELSE pomodoro])

\* the contents of config.json
UserJsons == {fileWith(pomodoro, xp) : pomodoro, xp \in SectionValues}

\* the contents of config.default.json: the shipped one, one without the
\* pomodoro section, one whose pomodoro is a number
DefaultJsons ==
  {jsonOf(DefaultFile),
   fileWith(Undefined, get(jsonOf(DefaultFile), "xp")),
   fileWith(Num(1500), get(jsonOf(DefaultFile), "xp"))}

\* loadConfig() is called with the two files holding the JSON values
\* defaultConfig and userConfig (one call in a behaviour)
loadFiles(defaultConfig, userConfig) ==
  /\ phase = "menu"
  /\ ~ghost.load.applied
  /\ ghost' = [ghost EXCEPT !.load =
                 [applied       |-> TRUE,
                  defaultConfig |-> defaultConfig,
                  userConfig    |-> userConfig,
                  mergedConfig  |-> deepMerge(defaultConfig, userConfig),
                  config        |->
                    validateConfig(deepMerge(defaultConfig, userConfig))]]
  /\ lastOp' = "loadConfig"
  /\ UNCHANGED <<now, phase, ticket, timer, timeouts, sessionVars, frames,
                 userData, config, disk, saveReturn, envVars>>

NextMerge ==
  \E defaultConfig \in DefaultJsons, userConfig \in UserJsons :
    loadFiles(defaultConfig, userConfig)

SpecMerge == InitTickets /\ [][NextMerge]_vars

(***************************************************************************)
(* The imports from Jira.  The list fetched holds 1..MaxFetched tickets,   *)
(* the i-th with i story points; the answer to Jira takes AnswerDelay at   *)
(* least, and while the tickets of one import are created the clock moves  *)
(* on by 0 or 1 ms from one to the next.                                   *)
(***************************************************************************)
\* result.tickets of importTicketsFromJira, n tickets
fetched(n) == [i \in 1..n |-> JiraTicket(i, 25)]

RECURSIVE split(_, _)
\* text.split(sep)
split(text, sep) ==
  LET at == {i \in 1..Len(text) : text[i] = sep}
  IN  IF at = {} THEN <<text>>
      ELSE LET i == CHOOSE j \in at : \A k \in at : j <= k
           IN  <<SubSeq(text, 1, i - 1)>> \o split(SubSeq(text, i + 1, Len(text)), sep)

\* parseSelectionString(selectionStr, maxLength): Array.from(indices), the
\* indices in the order they were added to the Set
parseSelectionString(selectionStr, maxLength) ==
  LET number(t) == LET n == StringToNumber(t)
                   IN  IF n = NaN THEN NaN ELSE n \div 60
      add(indices, i) ==
        IF i > 0 /\ i <= maxLength /\ \A k \in 1..Len(indices) : indices[k] # i - 1
        THEN Append(indices, i - 1) ELSE indices
      RECURSIVE range(_, _, _)
      range(indices, i, end) ==
        IF i > end THEN indices ELSE range(add(indices, i), i + 1, end)
      one(indices, raw) ==
        LET part == TrimEnd(SkipSpaces(raw))
        IN  IF \E i \in 1..Len(part) : part[i] = "-"
            THEN LET pieces == split(part, "-")
                     start  == number(pieces[1])
                     end    == number(pieces[2])
                 IN  IF start # NaN /\ end # NaN
                     THEN range(indices, start, end) ELSE indices
            ELSE LET index == parseInt(part)
                 IN  IF index # NaN THEN add(indices, index) ELSE indices
      RECURSIVE each(_, _)
      each(indices, parts) ==
        IF parts = <<>> THEN indices
        ELSE each(one(indices, Head(parts)), Tail(parts))
  IN  each(<<>>, split(selectionStr, ","))

\* the forEach of the two imports: the tickets of the list at the positions
\* selected are pushed, each with the clock reading of its creation (the
\* clock has moved on 1 ms before the k-th for the k in late), then
\* calculatePendingStats and saveData
importTickets(tickets, selected, late) ==
  LET reading(k) == now + AnswerDelay + Cardinality({j \in late : j <= k})
  IN  /\ userData' = calculatePendingStats(
           [userData EXCEPT !.tickets =
              @ \o [k \in 1..Len(selected) |->
                      created(tickets[selected[k]], reading(k))]])
      /\ now' = reading(Len(selected))
      /\ saveData(userData')

\* importTicketsFromJira with n tickets fetched and the answer 'a'
importTicketsFromJira(n, late) ==
  /\ phase = "menu"
  /\ Len(userData.tickets) + n <= MaxStored
  /\ late \subseteq 1..n
  /\ importTickets(fetched(n), [i \in 1..n |-> i], late)
  /\ frames' = {}
  /\ lastOp' = "importAll"
  /\ UNCHANGED <<phase, ticket, timer, timeouts, sessionVars, config, envVars,
                 ghost>>

\* the answers to "Enter selection"
SelectionTexts ==
  {<<"1">>, <<"1", ",", "3">>, <<"2", "-", "3">>, <<"-", "2">>,
   <<"3", "-", "1">>, <<" ", "2", ",", " ", "1">>,
   <<"1", ",", "1", "-", "2">>, <<"9">>, <<"0", "-", "9">>}

\* selectTicketsToImport(tickets) for n tickets fetched and the answer
\* given; with no valid ticket selected the prompt is shown again
selectTicketsToImport(n, answer, late) ==
  LET selectedIndices == parseSelectionString(answer, n)
  IN  /\ phase = "menu"
      /\ Len(userData.tickets) + Len(selectedIndices) <= MaxStored
      /\ late \subseteq 1..Len(selectedIndices)
      /\ IF Len(selectedIndices) = 0
         THEN UNCHANGED <<now, userData, disk, saveReturn>>
         ELSE importTickets(fetched(n),
                            [k \in 1..Len(selectedIndices) |-> selectedIndices[k] + 1],
                            late)
      /\ ghost' = [ghost EXCEPT !.selection =
                     [applied   |-> TRUE,
                      answer    |-> answer,
                      maxLength |-> n,
                      indices   |-> selectedIndices]]
      /\ frames' = {}
      /\ lastOp' = "importSelected"
      /\ UNCHANGED <<phase, ticket, timer, timeouts, sessionVars, config,
                     envVars>>

NextImport ==
  \/ \E points \in PointsTexts, time \in TimeTexts : addNewTicket(points, time)
  \/ \E n \in 1..MaxFetched, late \in SUBSET (1..MaxFetched) :
       importTicketsFromJira(n, late)
  \/ \E n \in 1..MaxFetched, answer \in SelectionTexts,
        late \in SUBSET (1..MaxFetched) :
       selectTicketsToImport(n, answer, late)

SpecImport == InitTickets /\ [][NextImport]_vars

(***************************************************************************)
(* Properties                                                              *)
(***************************************************************************)
theTicket == userData.tickets[ticket]

\* C1: in an unpaused session, once the time elapsed in the current period
\* has reached the period's duration the period has ended: after a poll the
\* current period has been running for less than its duration.
C1_NaturalCompletion ==
  (phase = "session" /\ lastOp = "tick" /\ ~isPaused)
    => now - startTime < 1000 * periodDuration(mode)

\* C2: Skip during a Work period adds to the ticket's time exactly the work
\* time that had elapsed in the skipped period (timeSpent is in seconds).
C2_SkipAddsElapsedOnly ==
  [][lastOp' = "skipWork"
       => userData'.tickets[ticket].timeSpent = theTicket.timeSpent + totalSeconds]_vars

\* C3: when the session has ended by Quit, the ticket's timeSpent and
\* completed flag and the user's xp and level, in memory and in the data
\* file, are what they were at session start.
C3_QuitLeavesRecords ==
  lastOp = "quit"
    => /\ theTicket.timeSpent = ghost.atStart.timeSpent
       /\ theTicket.completed = ghost.atStart.completed
       /\ userData.user = ghost.atStart.user
       /\ disk.tickets[ticket].timeSpent = ghost.atStart.timeSpent
       /\ disk.tickets[ticket].completed = ghost.atStart.completed
       /\ disk.user = ghost.atStart.user

\* C4: after Complete the level has been advanced until
\* user.xp < user.level * xpLevelThresholdMultiplier.
C4_LevelLoop ==
  lastOp = "complete"
    => userData.user.xp < userData.user.level * config.xpLevelThresholdMultiplier

\* C5: at Complete the ticket's timeSpent is its timeSpent at session start
\* plus the time of the session's Work periods (the finished ones and the
\* one in progress), rounded to a tenth of a minute; break time is not added.
C5_WorkTimeOnly ==
  lastOp = "complete"
    => theTicket.timeSpent
         = 6 * RoundTenths(ghost.atStart.timeSpent + ghost.workSeconds)

\* the XP formula of the specification in exact integer arithmetic, for a
\* final time of `tenths` tenths of a minute
FormulaXp(storyPoints, allocatedTime, tenths, cfg) ==
  LET base     == storyPoints * cfg.baseXpPerStoryPoint
      overtime == Max(0, tenths - 10 * allocatedTime)
  IN  IF overtime > 0
      THEN Max(0, base - (base * Min(100, (overtime * 10) \div allocatedTime)) \div 100)
      ELSE base + (base * cfg.earlyCompletionBonusPercent) \div 100

\* C6: the XP a settlement earns is the value of the stated formula
\* (integer story points, allocated time, rates and final time).
C6_XpFormula ==
  lastOp = "complete"
    => userData.user.xp - ghost.atStart.user.xp
         = FormulaXp(theTicket.storyPoints, theTicket.allocatedTime,
                     theTicket.timeSpent \div 6, config)

\* C7: when a Work period ends its count goes up by one, and the next period
\* is LongBreak if the new count is a multiple of
\* POMODOROS_BEFORE_LONG_BREAK and ShortBreak otherwise.
C7_LongBreakRule ==
  [][(mode = "work" /\ (mode' # "work" \/ lastOp' = "skipWork"))
       => /\ pomodoroCount' = pomodoroCount + 1
          /\ mode' = IF pomodoroCount' % POMODOROS_BEFORE_LONG_BREAK = 0
                     THEN "longBreak" ELSE "shortBreak"]_vars

C7_Witness ==
  /\ lastOp = "skipWork"
  /\ mode = "longBreak"
  /\ pomodoroCount = POMODOROS_BEFORE_LONG_BREAK

\* C8: when a period ends (Skip, Complete, Quit) the elapsed seconds the
\* session holds for it are within 1 second of the unpaused wall-clock time
\* of that period, whatever Pause and Resume commands came before.
C8_NoDrift ==
  [][lastOp' \in {"skipWork", "skipBreak", "complete", "quit"}
       => /\ ghost.unpausedMs - 1000 * totalSeconds <= 1000
          /\ 1000 * totalSeconds - ghost.unpausedMs <= 1000]_vars

\* C9: a poll of a paused session changes nothing but the clock: elapsed
\* seconds, remaining time, period and ticket stay as they are, however
\* late the poll comes.
C9_PausedPollFrame ==
  [][(isPaused /\ lastOp' = "tick")
       => UNCHANGED <<sessionVars, userData, disk, phase>>]_vars

C9_Witness ==
  /\ lastOp = "tick"
  /\ isPaused
  /\ lastElapsedTime < periodDuration(mode)
  /\ now - startTime >= 1000 * periodDuration(mode)

\* C10: Resume sets startTime to now minus the frozen elapsed seconds; Pause
\* and Resume leave the elapsed seconds as they are; the elapsed seconds a
\* later poll computes are not below the frozen value and count no paused
\* time (they never exceed the unpaused time of the period).
C10_ResumeRebase ==
  [][/\ lastOp' = "resume" => startTime' = now - 1000 * lastElapsedTime
     /\ lastOp' \in {"pause", "resume"}
          => UNCHANGED <<totalSeconds, lastElapsedTime, timeRemaining>>
     /\ (lastOp' = "tick" /\ mode' = mode)
          => /\ lastElapsedTime' >= lastElapsedTime
             /\ 1000 * totalSeconds' <= ghost'.unpausedMs]_vars

C10_Witness ==
  /\ lastOp = "tick"
  /\ ~isPaused
  /\ mode = "work" /\ pomodoroCount = 0
  /\ startTime >= 1000
  /\ totalSeconds >= 1
  /\ lastElapsedTime = (now - startTime) \div 1000

\* C11: after a poll of an unpaused session the elapsed seconds are
\* floor((t - startTime) / 1000) for the clock reading t of the poll, however
\* far apart the polls came.
C11_ElapsedFromClock ==
  (phase = "session" /\ lastOp = "tick" /\ ~isPaused)
    => /\ totalSeconds = (now - startTime) \div 1000
       /\ lastElapsedTime = totalSeconds

C11_Witness ==
  /\ phase = "session" /\ lastOp = "tick" /\ ~isPaused
  /\ now = 3000 /\ startTime = 500
  /\ totalSeconds = 2

\* C12: the poll at which an unpaused Work period reaches its full duration
\* raises the count of completed Work periods by exactly 1, and no other
\* poll changes the count.
C12_OneTransitionAtBoundary ==
  [][lastOp' = "tick"
       => pomodoroCount' = pomodoroCount +
            (IF /\ mode = "work" /\ ~isPaused
                /\ now - startTime < 1000 * WORK_DURATION_SEC
                /\ now' - startTime >= 1000 * WORK_DURATION_SEC
             THEN 1 ELSE 0)]_vars

\* C13: once the session has ended no timeout of the session is pending and
\* none redraws the timer display.
C13_NoOrphanTimers ==
  phase = "menu" => (timeouts = {} /\ lastOp # "redraw")

\* C14: Complete stops the interval and ends the session; after the session
\* has ended no step changes session, ticket, statistics or user state (in
\* memory or in the data file), and the session settles at most once.
C14_CompleteEndsSession ==
  [][/\ lastOp' = "complete" => (~timer' /\ phase' = "menu")
     /\ phase = "menu" => UNCHANGED <<phase, ticket, timer, sessionVars, userData, disk>>
     /\ ghost'.settled <= 1]_vars

C14_Witness ==
  /\ phase = "menu"
  /\ ghost.settled = 1
  /\ lastOp \in {"later", "redraw"}
  /\ disk.tickets[ticket].completed

\* C15: a key event the handler does not recognize, with or without a key
\* name, raises no error (the session goes on) and leaves the session, the
\* ticket and the user as they are.
C15_UnrecognizedKeyIgnored ==
  [][lastOp' \in {"other", "noName"}
       => UNCHANGED <<phase, timer, sessionVars, userData, disk>>]_vars

\* C19: in a session the elapsed seconds of the current period are between
\* 0 and the period's duration.
C19_ElapsedWithinDuration ==
  phase = "session"
    => (0 <= totalSeconds /\ totalSeconds <= periodDuration(mode))

\* C20: the elapsed seconds never decrease but by the reset to 0 of a period
\* transition, also when the clock is set back; a poll whose reading is not
\* after the last counted second leaves elapsed and remaining time as they
\* are; the remaining time is never negative.
C20_ElapsedMonotone ==
  [][/\ totalSeconds' < totalSeconds
          => (totalSeconds' = 0 /\ (mode' # mode \/ lastOp' \in {"skipWork", "skipBreak"}))
     /\ (lastOp' \in {"tick", "clockBack"}
           /\ (now' - startTime) \div 1000 <= lastElapsedTime)
          => UNCHANGED <<totalSeconds, lastElapsedTime, timeRemaining>>
     /\ timeRemaining' >= 0]_vars

C20_Witness ==
  /\ lastOp = "clockBack"
  /\ ~isPaused
  /\ totalSeconds = 2
  /\ now - startTime < 1000

\* C16: user.xp is never negative and no step lowers it, whatever story
\* points and allocated time were entered for the tickets.
C16_XpNeverDecreases ==
  [][/\ userData'.user.xp >= 0
     /\ userData'.user.xp >= userData.user.xp]_vars

\* C17: every ticket has a positive integer for storyPoints and for
\* allocatedTime after Add New Ticket and after Edit Ticket.
C17_TicketFieldsPositive ==
  \A i \in 1..Len(userData.tickets) :
    /\ userData.tickets[i].storyPoints > 0
    /\ userData.tickets[i].allocatedTime > 0

\* C18: a ticket that is completed stays completed and keeps its timeSpent,
\* in every step.
C18_CompletedIsFinal ==
  [][\A i \in 1..Len(userData.tickets) :
       userData.tickets[i].completed
         => /\ userData'.tickets[i].completed
            /\ userData'.tickets[i].timeSpent = userData.tickets[i].timeSpent]_vars

C18_Witness ==
  /\ lastOp = "jiraDone"
  /\ userData.tickets[1].completed
  /\ userData.tickets[1].timeSpent = 18
  /\ Len(userData.tickets) = 2

\* a value that is configured and is not a positive number
invalidValue(v) ==
  v.type # "undefined" /\ (ToNumber(v) = NaN \/ ToNumber(v) <= 0)

C22_FailedSaveSurfaced ==
  (lastOp = "complete" /\ ~writable)
    => /\ theTicket.completed
       /\ userData.stats.totalTicketsSolved = 1
       /\ disk # userData
       /\ saveReturn # "undefined"

\* C23: a session uses the Pomodoro settings as the Settings menu left
\* them before the session was started: it starts with the configured Work
\* duration on the clock, and the break after a Work period is the long one
\* when the count of Work periods is a multiple of the configured interval.
C23_SettingsUsedBySession ==
  /\ lastOp = "start" => timeRemaining = config.workDuration
  /\ lastOp = "skipWork"
       => mode = IF pomodoroCount % config.longBreakInterval = 0
                 THEN "longBreak" ELSE "shortBreak"

\* C24: a poll draws a frame only when at least 1000 ms of wall-clock time
\* have passed since the last frame a poll of the session drew
\* (ghost.pollDrawAt, below 0 before the first), however close the polls
\* that count a second come.
C24_PollDrawsThrottled ==
  [][(\E f \in frames' : f.by = "poll")
       => (ghost.pollDrawAt < 0 \/ now' - ghost.pollDrawAt >= 1000)]_vars

C24_Witness ==
  /\ lastOp = "tick"
  /\ ~isPaused
  /\ now = 3000
  /\ totalSeconds = 3
  /\ ghost.pollDrawAt = 2500
  /\ \A f \in frames : f.by # "poll"

\* C25: Skip during a ShortBreak or LongBreak starts a Work period with the
\* elapsed seconds at 0, and leaves the count of completed Work periods, the
\* paused flag, the ticket's timeSpent and the user's xp and level as they
\* are.
C25_SkipBreakFrame ==
  [][(mode # "work" /\ lastOp' \in {"skipWork", "skipBreak"})
       => /\ mode' = "work"
          /\ totalSeconds' = 0
          /\ lastElapsedTime' = 0
          /\ startTime' = now
          /\ pomodoroCount' = pomodoroCount
          /\ isPaused' = isPaused
          /\ userData'.tickets[ticket].timeSpent = theTicket.timeSpent
          /\ userData'.user = userData.user]_vars

C25_Witness ==
  /\ lastOp = "skipBreak"
  /\ mode = "work"
  /\ isPaused
  /\ totalSeconds = 0
  /\ timeRemaining = SHORT_BREAK_DURATION_SEC - 1
  /\ pomodoroCount = 1

\* C26: in every frame of the timer display, whatever drew it (the poll,
\* Pause/Resume, an unrecognized key, a delayed redraw), the remaining seconds
\* shown lie between 0 and the configured duration of the period kind the
\* same frame shows, also right after a Skip changed the period kind.
C26_FrameWithinDuration ==
  \A f \in frames : 0 <= f.timeRemaining /\ f.timeRemaining <= f.duration

\* C27: when Complete is pressed in Work mode while the timer display
\* reports OVERTIME for the ticket (timeSpent plus the session's seconds
\* exceeds the allocated time), the settlement takes the overtime branch:
\* overtime is added to the stats and the XP earned holds no early-completion
\* bonus, so it is at most the base XP.
C27_OvertimeShownDeniesBonus ==
  [][(/\ lastOp' = "complete"
      /\ mode = "work"
      /\ getTicketTimeInfo(theTicket, mode, totalSeconds).isOvertime)
       => /\ userData'.stats.totalOvertime > userData.stats.totalOvertime
          /\ userData'.user.xp
               <= userData.user.xp
                    + theTicket.storyPoints * config.baseXpPerStoryPoint]_vars

\* C28: for a ticket with positive story points and allocated time and a
\* fixed configuration, xpEarned does not increase with the final time
\* spent (a tenth of a minute more never earns more), never exceeds
\* base + bonus, and is 0 once the overtime reaches the allocated time.
C28_EarnedFallsWithTime ==
  LET s == ghost.settlement
  IN  s.applied =>
        LET base == baseXpD(s.storyPoints, s.rate)
        IN  /\ LeqD(xpEarnedD(s.storyPoints, s.allocatedTime, s.tenths + 1,
                              s.rate, RateBonus),
                    s.xpEarned)
            /\ LeqD(s.xpEarned, AddD(base, earlyBonusD(base, RateBonus)))
            /\ (s.tenths - 10 * s.allocatedTime >= 10 * s.allocatedTime
                  => s.xpEarned = ZeroD)

\* C29: Complete adds 1 to stats.totalTicketsSolved, the ticket's story
\* points to stats.totalStoryPoints, the ticket's final timeSpent to
\* stats.totalTimeTaken and max(0, final timeSpent - allocatedTime) to
\* stats.totalOvertime, and leaves the ticket completed with a completedAt
\* timestamp (times in seconds).
C29_CompleteUpdatesStats ==
  [][lastOp' = "complete"
       => LET before == userData.stats
              after  == userData'.stats
              done   == userData'.tickets[ticket]
          IN  /\ after.totalTicketsSolved = before.totalTicketsSolved + 1
              /\ after.totalStoryPoints
                   = AddN(before.totalStoryPoints, theTicket.storyPoints)
              /\ after.totalTimeTaken = before.totalTimeTaken + done.timeSpent
              /\ after.totalOvertime
                   = AddN(before.totalOvertime,
                          Max(0, done.timeSpent - 60 * theTicket.allocatedTime))
              /\ done.completed
              /\ "completedAt" \in DOMAIN done
              /\ done.completedAt = now]_vars

C29_Witness ==
  /\ lastOp = "complete"
  /\ theTicket.completed
  /\ theTicket.timeSpent = 66
  /\ userData.stats.totalTicketsSolved = 1
  /\ userData.stats.totalStoryPoints = 3
  /\ userData.stats.totalTimeTaken = 66
  /\ userData.stats.totalOvertime = 6

\* C30: after any sequence of operations stats.totalTicketsSolved is the
\* number of tickets whose completed flag is true and stats.totalStoryPoints
\* is the sum of their story points.
C30_StatsMatchCompleted ==
  LET done == {i \in 1..Len(userData.tickets) : userData.tickets[i].completed}
      RECURSIVE Points(_)
      Points(S) == IF S = {} THEN 0
                   ELSE LET i == CHOOSE j \in S : TRUE
                        IN  AddN(userData.tickets[i].storyPoints, Points(S \ {i}))
  IN  /\ userData.stats.totalTicketsSolved = Cardinality(done)
      /\ userData.stats.totalStoryPoints = Points(done)

\* C31: whenever an operation (add, edit, complete, Jira status update) has
\* saved the data, the saved stats.totalTicketsPending is the number of the
\* saved tickets that are not completed and the saved
\* stats.totalStoryPointsPending is the sum of their story points.
C31_SavedPendingStats ==
  LET open == {i \in 1..Len(disk.tickets) : ~disk.tickets[i].completed}
      RECURSIVE Points(_)
      Points(S) == IF S = {} THEN 0
                   ELSE LET i == CHOOSE j \in S : TRUE
                        IN  AddN(disk.tickets[i].storyPoints, Points(S \ {i}))
  IN  lastOp \in {"add", "edit", "complete", "jira", "jiraDone"}
        => /\ disk.stats.totalTicketsPending = Cardinality(open)
           /\ disk.stats.totalStoryPointsPending = Points(open)

\* C32: a start of the program whose config.json holds what the Settings
\* menu accepted and saved (the file is the saved form of the configuration
\* in memory at Exit) loads that configuration unchanged, an Early
\* Completion Bonus of 0 included.
C32_SettingsRoundTrip ==
  [][(lastOp' = "load" /\ configFile = fileOf(config)) => config' = config]_vars

\* C33: in the configuration loadConfig merges, at every depth, each key of
\* the user configuration has the user's value, whatever the default holds
\* under that key (an object of the user is merged key by key with what the
\* default holds there), and each key that only the default has keeps the
\* default's value.
C33_UserTakesPrecedence ==
  LET RECURSIVE Merged(_, _, _)
      Merged(m, d, u) ==
        /\ isObject(m)
        /\ \A key \in DOMAIN u.fields :
             /\ key \in DOMAIN m.fields
             /\ IF isObject(u.fields[key])
                THEN Merged(m.fields[key], get(d, key), u.fields[key])
                ELSE m.fields[key] = u.fields[key]
        /\ isObject(d) =>
             \A key \in DOMAIN d.fields \ DOMAIN u.fields :
               key \in DOMAIN m.fields /\ m.fields[key] = d.fields[key]
  IN  ghost.load.applied
        => Merged(ghost.load.mergedConfig, ghost.load.defaultConfig,
                  ghost.load.userConfig)

\* C34: whatever the default and user files hold, the configuration
\* loadConfig returns has the four pomodoro settings and the three XP
\* settings all numbers above 0.
C34_LoadedPositive ==
  ghost.load.applied
    => \A k \in ConfigKeys :
         ghost.load.config[k] # NaN /\ ghost.load.config[k] > 0

\* C35: after any sequence of Add New Ticket and imports from Jira (all
\* tickets or the tickets selected) no two tickets of the store have the
\* same id.
C35_TicketIdsUnique ==
  \A i, j \in 1..Len(userData.tickets) :
    i # j => userData.tickets[i].id # userData.tickets[j].id

\* C36: for an answer that is a comma-separated list of numbers and ranges,
\* parseSelectionString gives indices within 0..maxLength-1, none twice,
\* and i-1 is among them exactly for the i in 1..maxLength that the answer
\* names: as a number of its own (a text of digits) or as a member of a
\* range a-b (two texts of digits around one hyphen).
C36_SelectionParsed ==
  LET sel        == ghost.selection
      digits(t)  == t # <<>> /\ \A i \in 1..Len(t) : IsDigit(t[i])
      trimmed(t) == TrimEnd(SkipSpaces(t))
      named(raw) ==
        LET part   == trimmed(raw)
            pieces == split(part, "-")
        IN  IF digits(part) THEN {DecimalValue(part)}
            ELSE IF Len(pieces) = 2 /\ digits(trimmed(pieces[1]))
                                   /\ digits(trimmed(pieces[2]))
            THEN DecimalValue(trimmed(pieces[1]))..DecimalValue(trimmed(pieces[2]))
            ELSE {}
      parts      == split(sel.answer, ",")
      names      == UNION {named(parts[k]) : k \in 1..Len(parts)}
  IN  sel.applied
        => /\ \A k \in 1..Len(sel.indices) :
                sel.indices[k] \in 0..(sel.maxLength - 1)
           /\ \A k, l \in 1..Len(sel.indices) :
                k # l => sel.indices[k] # sel.indices[l]
           /\ {sel.indices[k] : k \in 1..Len(sel.indices)}
                = {i - 1 : i \in names \cap 1..sel.maxLength}

====
